---- MODULE Spec2Model ----
(***************************************************************************)
(* ch - Colored Highlighter (src/main.go, the variant with the -b flag,    *)
(* lines 254-526).  Strings are sequences of bytes (0..255); offsets are   *)
(* Go's 0-based byte offsets, sequences are 1-based, so line[k] of the     *)
(* code is line[k+1] here.                                                 *)
(***************************************************************************)
EXTENDS Integers, Sequences, FiniteSets, TLC

VARIABLES args, caseSensitive, wholeWord, background, stdin,
          pc, i, usedColors, configs, stderr,
          rd, line, searchLine, colored, replacements, w, pos, stdout

vars == <<args, caseSensitive, wholeWord, background, stdin,
          pc, i, usedColors, configs, stderr,
          rd, line, searchLine, colored, replacements, w, pos, stdout>>

(***************************************************************************)
(* Bounds of the model.                                                    *)
(***************************************************************************)
MaxLineLen == 4
MaxArgs == 4
MaxWords == 8
MaxLines == 3

(***************************************************************************)
(* Go library functions the program calls, by what they do.                *)
(***************************************************************************)
Min(S) == CHOOSE x \in S : \A y \in S : x <= y

\* s[a:b] of Go for 0 <= a <= b <= len(s)
Slice(s, a, b) == SubSeq(s, a + 1, b)

HasAt(s, k, p) ==
    /\ p + Len(k) <= Len(s)
    /\ \A j \in 1..Len(k) : s[p + j] = k[j]

\* strings.Index: the first offset of k in s, -1 if there is none ("" is at 0)
Index(s, k) ==
    LET c == {p \in 0..(Len(s) - Len(k)) : HasAt(s, k, p)}
    IN  IF c = {} THEN -1 ELSE Min(c)

\* strings.Split(s, sep) for a non-empty sep
RECURSIVE Split(_, _)
Split(s, sep) ==
    LET m == Index(s, sep)
    IN  IF m = -1 THEN <<s>>
        ELSE <<Slice(s, 0, m)>> \o Split(Slice(s, m + Len(sep), Len(s)), sep)

\* strings.TrimPrefix(s, "#")
TrimHash(s) == IF Len(s) >= 1 /\ s[1] = 35 THEN Slice(s, 1, Len(s)) ELSE s

\* 'A'..'Z' -> 'a'..'z'
LowerByte(c) == IF c >= 65 /\ c <= 90 THEN c + 32 ELSE c

\* strings.Map(unicode.ToLower, s) on a string whose bytes >= 0x80 belong to no
\* valid UTF-8 sequence (the model's only such byte is 0xFF): each of them
\* decodes to utf8.RuneError, which is written back as the 3 bytes EF BF BD.
RECURSIVE MapLower(_)
MapLower(s) ==
    IF s = <<>> THEN <<>>
    ELSE (IF s[1] < 128 THEN <<LowerByte(s[1])>> ELSE <<239, 191, 189>>)
         \o MapLower(Tail(s))

\* strings.ToLower: the ASCII fast path, else strings.Map
ToLower(s) ==
    IF \A k \in 1..Len(s) : s[k] < 128
    THEN [k \in 1..Len(s) |-> LowerByte(s[k])]
    ELSE MapLower(s)

\* %d of fmt.Sprintf for 0 <= n <= 255
Dec(n) ==
    IF n < 10 THEN <<48 + n>>
    ELSE IF n < 100 THEN <<48 + (n \div 10), 48 + (n % 10)>>
    ELSE <<48 + (n \div 100), 48 + ((n \div 10) % 10), 48 + (n % 10)>>

IsHex(c) == (c >= 48 /\ c <= 57) \/ (c >= 65 /\ c <= 70) \/ (c >= 97 /\ c <= 102)

HexVal(c) == IF c <= 57 THEN c - 48 ELSE IF c <= 70 THEN c - 55 ELSE c - 87

\* one %02x of fmt.Sscanf at offset p: up to two hex digits; no digit is an error.
\* (The model's tokens hold no space, sign or underscore, which Sscanf also reads.)
Read2(s, p) ==
    IF p >= Len(s) \/ ~IsHex(s[p + 1]) THEN [ok |-> FALSE, val |-> 0, next |-> p]
    ELSE IF p + 1 < Len(s) /\ IsHex(s[p + 2])
         THEN [ok |-> TRUE, val |-> 16 * HexVal(s[p + 1]) + HexVal(s[p + 2]), next |-> p + 2]
         ELSE [ok |-> TRUE, val |-> HexVal(s[p + 1]), next |-> p + 1]

\* fmt.Sscanf(hex, "%02x%02x%02x", &r, &g, &b) with its error ignored: the
\* values scanned before the first failure are stored, the others stay 0.
Sscanf(hex) ==
    LET r == Read2(hex, 0)
        g == Read2(hex, r.next)
        b == Read2(hex, g.next)
    IN  IF ~r.ok THEN <<0, 0, 0>>
        ELSE IF ~g.ok THEN <<r.val, 0, 0>>
        ELSE IF ~b.ok THEN <<r.val, g.val, 0>>
        ELSE <<r.val, g.val, b.val>>

(***************************************************************************)
(* Colors.                                                                 *)
(***************************************************************************)
\* "\033[0m"
Reset == <<27, 91, 48, 109>>

\* red, green, orange, blue, pink, purple
namedColors ==
    << [name |-> <<114, 101, 100>>, r |-> 255, g |-> 105, b |-> 97],
       [name |-> <<103, 114, 101, 101, 110>>, r |-> 134, g |-> 194, b |-> 29],
       [name |-> <<111, 114, 97, 110, 103, 101>>, r |-> 240, g |-> 160, b |-> 75],
       [name |-> <<98, 108, 117, 101>>, r |-> 134, g |-> 176, b |-> 189],
       [name |-> <<112, 105, 110, 107>>, r |-> 255, g |-> 164, b |-> 164],
       [name |-> <<112, 117, 114, 112, 108, 101>>, r |-> 203, g |-> 166, b |-> 247] >>

\* "\033[48;2;R;G;Bm" (background) or "\033[38;2;R;G;Bm"
rgbToANSI(r, g, b, bg) ==
    <<27, 91, (IF bg THEN 52 ELSE 51), 56, 59, 50, 59>>
    \o Dec(r) \o <<59>> \o Dec(g) \o <<59>> \o Dec(b) \o <<109>>

presetANSI(k, bg) == rgbToANSI(namedColors[k].r, namedColors[k].g, namedColors[k].b, bg)

\* the escape sequence of a color token, "" (the empty string) on failure
parseColor(colorStr, bg) ==
    LET lowerColor == ToLower(colorStr)
        named == {k \in 1..Len(namedColors) : namedColors[k].name = lowerColor}
        hex == TrimHash(colorStr)
        rgb == Sscanf(hex)
    IN  IF named # {} THEN presetANSI(Min(named), bg)
        ELSE IF Len(hex) # 6 THEN <<>>
        ELSE rgbToANSI(rgb[1], rgb[2], rgb[3], bg)

\* the first unused palette entry, which it marks used; the first entry when
\* all are used
getNextAvailableColor(used, bg) ==
    LET free == {k \in 1..Len(namedColors) : k \notin used}
    IN  IF free # {}
        THEN [color |-> presetANSI(Min(free), bg), used |-> used \cup {Min(free)}]
        ELSE [color |-> presetANSI(1, bg), used |-> used]

\* "::"
Sep == <<58, 58>>

\* no reservation of the explicit colors
reservedNone(arg, bg) == {}

\* the palette entries the first pass of parseArgs marks used for arg: the
\* first one whose escape sequence the explicit color of arg resolves to
reserved(arg, bg) ==
    LET parts == Split(arg, Sep)
        color == parseColor(parts[2], bg)
        hit == {k \in 1..Len(namedColors) : color = presetANSI(k, bg)}
    IN  IF Len(parts) = 2 /\ parts[2] # <<>> /\ color # <<>> /\ hit # {}
        THEN {Min(hit)} ELSE {}

hasColor(arg) == LET parts == Split(arg, Sep) IN Len(parts) = 2 /\ parts[2] # <<>>

(***************************************************************************)
(* main and parseArgs.                                                     *)
(***************************************************************************)
\* main up to the call of parseArgs: no argument is the usage error (exit 1)
Start ==
    /\ pc = "start"
    /\ pc' = IF Len(args) = 0 THEN "usage" ELSE "reserve"
    /\ UNCHANGED <<args, caseSensitive, wholeWord, background, stdin, i, usedColors,
                   configs, stderr, rd, line, searchLine, colored, replacements,
                   w, pos, stdout>>

\* parseArgs, first pass, one argument: reserve the palette entry of an
\* explicit color
Reserve ==
    /\ pc = "reserve"
    /\ IF i > Len(args)
       THEN /\ pc' = "assign"
            /\ i' = 1
            /\ UNCHANGED usedColors
       ELSE /\ usedColors' = usedColors \cup reserved(args[i], background)
            /\ i' = i + 1
            /\ UNCHANGED pc
    /\ UNCHANGED <<args, caseSensitive, wholeWord, background, stdin, configs, stderr,
                   rd, line, searchLine, colored, replacements, w, pos, stdout>>

\* parseArgs, second pass, one argument: resolve its color and append its
\* wordConfig
Assign ==
    /\ pc = "assign"
    /\ IF i > Len(args)
       THEN /\ pc' = "scan"
            /\ UNCHANGED <<i, usedColors, configs, stderr>>
       ELSE LET parts == Split(args[i], Sep)
                word == parts[1]
                explicit == IF hasColor(args[i]) THEN parseColor(parts[2], background)
                            ELSE <<>>
                warn == hasColor(args[i]) /\ explicit = <<>>
                next == getNextAvailableColor(usedColors, background)
                auto == ~hasColor(args[i]) \/ warn
            IN  /\ stderr' = IF warn
                             THEN Append(stderr, [color |-> parts[2], word |-> word])
                             ELSE stderr
                /\ usedColors' = IF auto THEN next.used ELSE usedColors
                /\ configs' = Append(configs,
                       [original |-> word,
                        search |-> IF caseSensitive THEN word ELSE ToLower(word),
                        color |-> IF auto THEN next.color ELSE explicit,
                        background |-> background])
                /\ i' = i + 1
                /\ UNCHANGED pc
    /\ UNCHANGED <<args, caseSensitive, wholeWord, background, stdin,
                   rd, line, searchLine, colored, replacements, w, pos, stdout>>

(***************************************************************************)
(* The read loop and highlightLine.                                        *)
(***************************************************************************)
IsSpace(c) == c = 32 \/ c = 10 \/ c = 9

\* the backward loop of the whole-word extension; -1 when it reads line[s-1]
\* at or after len(line) (index out of range)
RECURSIVE ExtendStart(_, _)
ExtendStart(l, s) ==
    IF s <= 0 THEN s
    ELSE IF s - 1 >= Len(l) THEN -1
    ELSE IF IsSpace(l[s]) THEN s
    ELSE ExtendStart(l, s - 1)

\* the forward loop of the whole-word extension
RECURSIVE ExtendEnd(_, _)
ExtendEnd(l, e) ==
    IF e < Len(l) /\ ~IsSpace(l[e + 1]) THEN ExtendEnd(l, e + 1) ELSE e

\* startIdx of the candidate at idx (-1: the extension panics)
CandStart(idx) == IF wholeWord THEN ExtendStart(line, idx) ELSE idx

\* endIdx of the candidate at idx of a word whose search key is key
CandEnd(idx, key) ==
    IF wholeWord THEN ExtendEnd(line, idx + Len(key)) ELSE idx + Len(key)

\* a check of the first byte of the span alone
CheckColoredFirst(s, e) ==
    IF s < e /\ s < Len(colored) /\ colored[s + 1] THEN "hit"
    ELSE IF s < e /\ e > Len(colored) THEN "panic"
    ELSE "free"

\* the loop over colored[startIdx..endIdx): "hit" when it finds a claimed
\* byte, "panic" when it indexes colored at or after its length first, else
\* "free"
CheckColored(s, e) ==
    IF \E k \in s..(e - 1) : k < Len(colored) /\ colored[k + 1] THEN "hit"
    ELSE IF s < e /\ e > Len(colored) THEN "panic"
    ELSE "free"

\* a write without the newline: the text joins the last line written
PrintlnJoined(out, s) ==
    IF out = <<>> THEN <<s>> ELSE [out EXCEPT ![Len(out)] = out[Len(out)] \o s]

\* fmt.Println: the text and a newline, one more line of output
Println(out, s) == Append(out, s)

\* a view that is lower-cased whatever the -s flag
SearchViewLower(l) == ToLower(l)

\* the view of the line the words are searched in
SearchView(l) == IF caseSensitive THEN l ELSE ToLower(l)

\* scanner.Scan and the head of highlightLine: end of input ends the loop; a
\* line is returned as it is when there is no wordConfig
Scan ==
    /\ pc = "scan"
    /\ IF rd >= Len(stdin)
       THEN /\ pc' = "done"
            /\ UNCHANGED <<rd, line, searchLine, colored, replacements, w, pos, stdout>>
       ELSE LET l == stdin[rd + 1]
            IN  /\ rd' = rd + 1
                /\ IF Len(configs) = 0
                   THEN /\ stdout' = Println(stdout, l)
                        /\ UNCHANGED <<pc, line, searchLine, colored, replacements, w, pos>>
                   ELSE /\ pc' = "match"
                        /\ line' = l
                        /\ searchLine' = SearchView(l)
                        /\ colored' = [k \in 1..Len(l) |-> FALSE]
                        /\ replacements' = <<>>
                        /\ w' = 1
                        /\ pos' = 0
                        /\ UNCHANGED stdout
    /\ UNCHANGED <<args, caseSensitive, wholeWord, background, stdin, i, usedColors,
                   configs, stderr>>

\* a scan that resumes after the end of the occurrence
ResumeAfter(idx, key) == idx + Len(key)

\* pos = idx + 1: where the scan of the same word resumes after the
\* occurrence at idx, accepted or not
Resume(idx, key) == idx + 1

\* one iteration of the search loop of highlightLine for word w at pos
Match ==
    /\ pc = "match"
    /\ IF w > Len(configs)
       THEN /\ pc' = "emit"
            /\ UNCHANGED <<colored, replacements, w, pos>>
       ELSE IF pos > Len(searchLine)
       THEN \* searchLine[pos:] is out of range
            /\ pc' = "panic"
            /\ UNCHANGED <<colored, replacements, w, pos>>
       ELSE LET cfg == configs[w]
                rel == Index(Slice(searchLine, pos, Len(searchLine)), cfg.search)
                idx == rel + pos
                s == CandStart(idx)
                e == CandEnd(idx, cfg.search)
                chk == CheckColored(s, e)
            IN  IF rel = -1
                THEN /\ w' = w + 1
                     /\ pos' = 0
                     /\ UNCHANGED <<pc, colored, replacements>>
                ELSE IF s = -1 \/ chk = "panic" \/ (chk = "free" /\ e > Len(line))
                THEN /\ pc' = "panic"
                     /\ UNCHANGED <<colored, replacements, w, pos>>
                ELSE /\ pos' = Resume(idx, cfg.search)
                     /\ colored' = IF chk = "free"
                                   THEN [k \in 1..Len(colored) |->
                                            colored[k] \/ (k - 1 >= s /\ k - 1 < e)]
                                   ELSE colored
                     /\ replacements' = IF chk = "free"
                                        THEN Append(replacements,
                                               [start |-> s, end |-> e,
                                                text |-> cfg.color \o Slice(line, s, e) \o Reset])
                                        ELSE replacements
                     /\ UNCHANGED <<pc, w>>
    /\ UNCHANGED <<args, caseSensitive, wholeWord, background, stdin, i, usedColors,
                   configs, stderr, rd, line, searchLine, stdout>>

\* the replacements in the order they were accepted
SortNone(rs, a, b) == rs

Swap(rs, a, b) == [rs EXCEPT ![a] = rs[b], ![b] = rs[a]]

\* the exchange sort of the replacements by start
RECURSIVE SortFrom(_, _, _)
SortFrom(rs, a, b) ==
    IF a > Len(rs) THEN rs
    ELSE IF b > Len(rs) THEN SortFrom(rs, a + 1, a + 2)
    ELSE SortFrom(IF rs[b].start < rs[a].start THEN Swap(rs, a, b) ELSE rs, a, b + 1)

\* the result string: the bytes between the replacements and their texts
RECURSIVE Build(_, _, _)
Build(l, rs, lastPos) ==
    IF rs = <<>> THEN Slice(l, lastPos, Len(l))
    ELSE Slice(l, lastPos, rs[1].start) \o rs[1].text \o Build(l, Tail(rs), rs[1].end)

\* the tail of highlightLine and fmt.Println
Emit ==
    /\ pc = "emit"
    /\ stdout' = Println(stdout,
                    IF Len(replacements) = 0 THEN line
                    ELSE Build(line, SortFrom(replacements, 1, 2), 0))
    /\ pc' = "scan"
    /\ line' = <<>>
    /\ searchLine' = <<>>
    /\ colored' = <<>>
    /\ replacements' = <<>>
    /\ w' = 0
    /\ pos' = 0
    /\ UNCHANGED <<args, caseSensitive, wholeWord, background, stdin, i, usedColors,
                   configs, stderr, rd>>

Next == Start \/ Reserve \/ Assign \/ Scan \/ Match \/ Emit

(***************************************************************************)
(* Inputs.                                                                 *)
(***************************************************************************)
SeqsUpTo(S, n) == UNION {[1..k -> S] : k \in 0..n}

\* 'a', 'b', 'A', ' ' and the byte 0xFF, which no UTF-8 sequence contains
Alphabet == {97, 98, 65, 32, 255}

InitOf(argLists, inputs, cs, ww, bg) ==
    /\ args \in argLists
    /\ stdin \in inputs
    /\ caseSensitive \in cs
    /\ wholeWord \in ww
    /\ background \in bg
    /\ i = 1
    /\ usedColors = {}
    /\ configs = <<>>
    /\ stderr = <<>>
    /\ rd = 0
    /\ line = <<>>
    /\ searchLine = <<>>
    /\ colored = <<>>
    /\ replacements = <<>>
    /\ w = 0
    /\ pos = 0
    /\ stdout = <<>>

InitMain(argLists, inputs, cs, ww, bg) ==
    InitOf(argLists, inputs, cs, ww, bg) /\ pc = "start"

\* word lists of the matcher: a; A; ab ba; ba aa; aa a; the empty word; ::red
MatchArgs ==
    { <<>>,
      << <<97>> >>,
      << <<65>> >>,
      << <<97, 98>>, <<98, 97>> >>,
      << <<98, 97>>, <<97, 97>> >>,
      << <<97, 97>>, <<97>> >>,
      << <<>> >>,
      << <<58, 58, 114, 101, 100>> >> }

\* every line of at most MaxLineLen bytes, one line of input
Init ==
    \/ InitMain(MatchArgs, {<<l>> : l \in SeqsUpTo(Alphabet, MaxLineLen)},
              BOOLEAN, BOOLEAN, {FALSE})
    \* highlightLine called on its own with no wordConfig (main exits before
    \* the read loop when there is no argument)
    \/ /\ InitOf({<<>>}, {<<l>> : l \in SeqsUpTo(Alphabet, MaxLineLen)},
                 BOOLEAN, BOOLEAN, {FALSE})
       /\ pc = "scan"

Spec == Init /\ [][Next]_vars

\* arguments with color tokens: a, a::red, a::Green, a::ff (too short),
\* a::#FF6961 (the RGB value of red)
ColorArgs ==
    { <<97>>,
      <<97, 58, 58, 114, 101, 100>>,
      <<97, 58, 58, 71, 114, 101, 101, 110>>,
      <<97, 58, 58, 102, 102>>,
      <<97, 58, 58, 35, 70, 70, 54, 57, 54, 49>> }

\* every list of at most MaxArgs such arguments, with and without -b
InitArgs ==
    InitMain(SeqsUpTo(ColorArgs, MaxArgs), {<< <<97>> >>}, {FALSE}, {FALSE}, BOOLEAN)

SpecArgs == InitArgs /\ [][Next]_vars

\* the same arguments and a::zzzzzz (6 characters, no hex digit)
TokenArgs == ColorArgs \cup {<<97, 58, 58, 122, 122, 122, 122, 122, 122>>}

InitTokens ==
    InitMain(SeqsUpTo(TokenArgs, MaxArgs), {<< <<97>> >>}, {FALSE}, {FALSE}, BOOLEAN)

SpecTokens == InitTokens /\ [][Next]_vars

\* every list of at most MaxWords words a, b without a color
InitCycle ==
    InitMain(SeqsUpTo({<<97>>, <<98>>}, MaxWords), {<< <<97, 98>> >>},
             {FALSE}, {FALSE}, BOOLEAN)

SpecCycle == InitCycle /\ [][Next]_vars

\* the lines of a stream: the empty line, "a", "b a", "ab", "aba", 0xFF "a"
StreamLines == {<<>>, <<97>>, <<98, 32, 97>>, <<97, 98>>, <<97, 98, 97>>, <<255, 97>>}

\* every input of at most MaxLines such lines
InitStream ==
    InitMain({<< <<97>> >>, << <<97, 98>>, <<98, 97>> >>, << <<98>>, <<65>> >>},
             SeqsUpTo(StreamLines, MaxLines), BOOLEAN, BOOLEAN, {FALSE})

SpecStream == InitStream /\ [][Next]_vars

(***************************************************************************)
(* Properties.                                                             *)
(***************************************************************************)
Occurs(k, s) == \E p \in 0..Len(s) : HasAt(s, k, p)

\* the spans [s1,e1) and [s2,e2) share a byte
Overlap(s1, e1, s2, e2) == \E k \in s1..(e1 - 1) : k >= s2 /\ k < e2

\* the search loop is at a candidate occurrence of word w
HasCand ==
    /\ pc \in {"match", "panic"}
    /\ w <= Len(configs)
    /\ pos <= Len(searchLine)
    /\ Index(Slice(searchLine, pos, Len(searchLine)), configs[w].search) # -1

CandIdx == Index(Slice(searchLine, pos, Len(searchLine)), configs[w].search) + pos

Disjoint ==
    \A a, b \in 1..Len(replacements) :
        a # b => ~Overlap(replacements[a].start, replacements[a].end,
                          replacements[b].start, replacements[b].end)

\* C1: while a line is matched the accepted spans are pairwise byte-disjoint,
\* and a step that decides a candidate appends its span to the accepted
\* matches if and only if the span shares no byte with a match accepted
\* before it (of an earlier word or of the same word); the matches accepted
\* before stay as they are.
C1_DeclarationOrder ==
    /\ []Disjoint
    /\ [][(HasCand /\ pc = "match" /\ pc' = "match") =>
            LET s == CandStart(CandIdx)
                e == CandEnd(CandIdx, configs[w].search)
                n == Len(replacements)
                free == \A k \in 1..n :
                           ~Overlap(replacements[k].start, replacements[k].end, s, e)
            IN  /\ SubSeq(replacements', 1, n) = replacements
                /\ IF free
                   THEN /\ Len(replacements') = n + 1
                        /\ replacements'[n + 1].start = s
                        /\ replacements'[n + 1].end = e
                   ELSE replacements' = replacements]_vars

\* C1 witness: words ab, ba on the line "bab" (no -s, no -w): ab is accepted
\* at 1, the candidate of ba at 0 is discarded, and only "ab" is colorized.
C1_Witness ==
    /\ args = << <<97, 98>>, <<98, 97>> >>
    /\ stdin = << <<98, 97, 98>> >>
    /\ ~wholeWord
    /\ stdout = << <<98>> \o presetANSI(1, FALSE) \o <<97, 98>> \o Reset >>

\* C2: a line in whose search view no search key of the table occurs is
\* written as it was read, and matching it does not crash.
C2_Passthrough ==
    LET View(l) == IF caseSensitive THEN l ELSE ToLower(l)
        NoKey(l) == \A k \in 1..Len(configs) : ~Occurs(configs[k].search, View(l))
    IN  /\ \A n \in 1..Len(stdout) : NoKey(stdin[n]) => stdout[n] = stdin[n]
        /\ (pc = "panic" => ~NoKey(stdin[rd]))

\* C2 witness: a non-empty line was written unchanged by a non-empty table
\* none of whose keys occurs in it.
C2_Witness ==
    /\ Len(stdout) = 1
    /\ Len(configs) >= 1
    /\ Len(stdin[1]) >= 2
    /\ \A k \in 1..Len(configs) : ~Occurs(configs[k].search, ToLower(stdin[1]))
    /\ stdout[1] = stdin[1]

\* bytewise folding of 'A'..'Z'
Fold(s) == [k \in 1..Len(s) |-> LowerByte(s[k])]

\* C3: with -w every accepted span starts at 0 or after a space, tab or
\* newline and ends at len(line) or before one, and the backward loop of the
\* extension, which first reads line[idx-1], reads inside the line.
C3_WholeWordInRange ==
    wholeWord =>
        /\ \A k \in 1..Len(replacements) :
              /\ replacements[k].start = 0 \/ IsSpace(line[replacements[k].start])
              /\ replacements[k].end = Len(line) \/ IsSpace(line[replacements[k].end + 1])
        /\ (HasCand /\ CandIdx > 0) => CandIdx - 1 < Len(line)

\* the term typed for word k occurs in l at offset p, under the case rule
TermAt(l, k, p) ==
    IF caseSensitive THEN HasAt(l, configs[k].original, p)
    ELSE HasAt(Fold(l), Fold(configs[k].original), p)

\* C6: when the search of a line is over, every occurrence of a term in the
\* line (whatever its letter case without -s, byte-identical with -s) has a
\* byte in a colorized span, and every colorized span holds the line's own
\* bytes and an occurrence of its word's term.
C6_CaseHandling ==
    pc = "emit" =>
        /\ \A k \in 1..Len(configs) : \A p \in 0..Len(line) :
              (configs[k].original # <<>> /\ TermAt(line, k, p)) =>
                  \E j \in p..(p + Len(configs[k].original) - 1) : colored[j + 1]
        /\ \A n \in 1..Len(replacements) :
              LET r == replacements[n]
              IN  \E k \in 1..Len(configs) :
                     /\ r.text = configs[k].color \o Slice(line, r.start, r.end) \o Reset
                     /\ \E p \in r.start..r.end :
                           p + Len(configs[k].original) <= r.end /\ TermAt(line, k, p)

\* C10: the search view has the length of the line and each of its bytes is
\* the (folded) byte of the line at the same offset; a candidate's offsets
\* index the occupancy mask; a colorized span holds, folded, its word's key.
C10_OffsetsAligned ==
    pc \in {"match", "emit", "panic"} =>
        /\ Len(searchLine) = Len(line)
        /\ \A k \in 1..Len(line) :
              searchLine[k] = IF caseSensitive THEN line[k] ELSE LowerByte(line[k])
        /\ HasCand => CandIdx + Len(configs[w].search) <= Len(colored)
        /\ \A n \in 1..Len(replacements) :
              LET r == replacements[n]
              IN  \E k \in 1..Len(configs) :
                     /\ SubSeq(r.text, 1, Len(configs[k].color)) = configs[k].color
                     /\ Occurs(configs[k].search,
                               IF caseSensitive THEN Slice(line, r.start, r.end)
                               ELSE Fold(Slice(line, r.start, r.end)))

(***************************************************************************)
(* Properties of parseArgs.                                                *)
(***************************************************************************)
\* the color token of an argument that has one
Token(arg) == Split(arg, Sep)[2]

IsName(tok, k) == Fold(tok) = namedColors[k].name

\* tok is 6 hexadecimal digits, after an optional '#'
IsHex6(tok) ==
    LET h == TrimHash(tok)
    IN  Len(h) = 6 /\ \A n \in 1..6 : IsHex(h[n])

\* tok is the hex form of the RGB value of palette entry k
IsHexOf(tok, k) ==
    LET h == TrimHash(tok)
    IN  /\ IsHex6(tok)
        /\ 16 * HexVal(h[1]) + HexVal(h[2]) = namedColors[k].r
        /\ 16 * HexVal(h[3]) + HexVal(h[4]) = namedColors[k].g
        /\ 16 * HexVal(h[5]) + HexVal(h[6]) = namedColors[k].b

Palette == 1..Len(namedColors)

\* the color tokens of the arguments
Tokens == {Token(args[n]) : n \in {k \in 1..Len(args) : hasColor(args[k])}}

\* the palette entries some word names
Named == LET toks == Tokens IN {k \in Palette : \E tok \in toks : IsName(tok, k)}

\* the palette entries some word requests, by name or by RGB value
Requested ==
    LET toks == Tokens
    IN  {k \in Palette : \E tok \in toks : IsName(tok, k) \/ IsHexOf(tok, k)}

\* the palette entries the words before word m were given
GivenBefore(m) == {k \in Palette : \E j \in 1..(m - 1) :
                      configs[j].color = presetANSI(k, background)}

\* every word without a color token has the first palette entry that is
\* neither in claimed nor given to a word before it, while one is left
AutoInOrder(claimed) ==
    \A m \in 1..Len(configs) :
        ~hasColor(args[m]) =>
            LET free == Palette \ (claimed \cup GivenBefore(m))
            IN  free # {} => configs[m].color = presetANSI(Min(free), background)

\* C4 as amended: once the second pass runs, every palette entry a word
\* requests, by name or by a hex token of the same RGB value, is marked
\* used, and every word without a color token has the first palette entry,
\* in palette order, that no word requests so and no earlier word was given.
C4_ColorAssignment ==
    LET claimed == Requested
    IN  /\ (pc \notin {"start", "reserve"}) => claimed \subseteq usedColors
        /\ AutoInOrder(claimed)

\* C4 as stated: the claimed entries are those a word names.
C4_Original ==
    LET claimed == Named
    IN  /\ (pc \notin {"start", "reserve"}) => claimed \subseteq usedColors
        /\ AutoInOrder(claimed)

\* C4 witness: a::red a a::Green a gives red, orange, green, blue.
C4_Witness ==
    /\ args = << <<97, 58, 58, 114, 101, 100>>, <<97>>,
                 <<97, 58, 58, 71, 114, 101, 101, 110>>, <<97>> >>
    /\ Len(configs) = 4
    /\ configs[1].color = presetANSI(1, background)
    /\ configs[2].color = presetANSI(3, background)
    /\ configs[3].color = presetANSI(2, background)
    /\ configs[4].color = presetANSI(4, background)

\* C5: with no explicit color the k-th word (from 0) has palette entry
\* k mod 6.
C5_Cycle ==
    (\A n \in 1..Len(args) : ~hasColor(args[n])) =>
        \A m \in 1..Len(configs) :
            configs[m].color = presetANSI(((m - 1) % Len(namedColors)) + 1, background)

\* C7: a word whose color token is neither a palette name nor 6 hex digits
\* (after an optional '#') is warned about and has a preset color, the one
\* the same word without its token has in the same place; and the table has
\* an entry for every argument when the second pass is over.
C7_InvalidToken ==
    /\ \A m \in 1..Len(configs) :
          LET tok == Token(args[m])
          IN  (hasColor(args[m]) /\ ~IsHex6(tok) /\ \A k \in Palette : ~IsName(tok, k)) =>
                  /\ \E n \in 1..Len(stderr) :
                        stderr[n].color = tok /\ stderr[n].word = configs[m].original
                  /\ LET free == Palette \ (Requested \cup GivenBefore(m))
                     IN  configs[m].color =
                             presetANSI(IF free = {} THEN 1 ELSE Min(free), background)
    /\ (pc \notin {"start", "reserve", "assign", "usage"}) => Len(configs) = Len(args)

\* C9: every entry of the word table has a non-empty search key, and the
\* program does not crash.
C9_NoEmptyKey ==
    /\ \A m \in 1..Len(configs) : configs[m].search # <<>>
    /\ pc # "panic"

(***************************************************************************)
(* Properties of the read loop.                                            *)
(***************************************************************************)
\* s without its escape sequences (ESC ... 'm')
RECURSIVE Strip(_, _)
Strip(s, esc) ==
    IF s = <<>> THEN <<>>
    ELSE IF esc THEN Strip(Tail(s), s[1] # 109)
    ELSE IF s[1] = 27 THEN Strip(Tail(s), TRUE)
    ELSE <<s[1]>> \o Strip(Tail(s), FALSE)

\* C8: the lines are read in order and one at a time: a line is written
\* before the next is read, the n-th line written is the rendering of the
\* n-th line of input (that line, once the escape sequences are removed),
\* and at end of input as many lines were written as were read.
C8_LineContract ==
    /\ rd <= Len(stdin)
    /\ Len(stdout) <= rd
    /\ rd <= Len(stdout) + 1
    /\ pc \in {"scan", "done"} => Len(stdout) = rd
    /\ pc \in {"match", "emit", "panic"} => (rd = Len(stdout) + 1 /\ line = stdin[rd])
    /\ \A n \in 1..Len(stdout) : Strip(stdout[n], FALSE) = stdin[n]
    /\ pc = "done" => Len(stdout) = Len(stdin)

\* C8 witness: two lines were read and written at end of input, the second
\* with a colorized match.
C8_Witness ==
    /\ pc = "done"
    /\ Len(stdin) = 2
    /\ Len(stdout) = 2
    /\ stdin[1] # stdin[2]
    /\ stdout[2] # stdin[2]

(***************************************************************************)
(* Properties of the reassembly and of the scan.                           *)
(***************************************************************************)
\* the place of span j among the spans rs in ascending order of start
Rank(rs, j) ==
    Cardinality({m \in 1..Len(rs) :
                    \/ rs[m].start < rs[j].start
                    \/ (rs[m].start = rs[j].start /\ m < j)}) + 1

\* the spans rs in ascending order of start
Ascending(rs) ==
    [k \in 1..Len(rs) |-> rs[CHOOSE j \in 1..Len(rs) : Rank(rs, j) = k]]

\* 0 <= start <= end of each span, each span ends at or before the start of
\* the next, and the last one ends at or before len(l)
InOrder(l, sp) ==
    \A k \in 1..Len(sp) :
        /\ (IF k = 1 THEN 0 ELSE sp[k - 1].end) <= sp[k].start
        /\ sp[k].start <= sp[k].end
        /\ sp[k].end <= Len(l)

\* the untouched bytes before span k, the text of span k, and so on to the
\* untouched suffix
RECURSIVE Reassembled(_, _, _)
Reassembled(l, sp, k) ==
    LET from == IF k = 1 THEN 0 ELSE sp[k - 1].end
    IN  IF k > Len(sp) THEN Slice(l, from, Len(l))
        ELSE Slice(l, from, sp[k].start) \o sp[k].text \o Reassembled(l, sp, k + 1)

\* C11: the line highlightLine returns is the concatenation, in ascending
\* order of start, of the untouched bytes before the first accepted span,
\* each accepted span as color + line[start:end] + reset (the color of a
\* word of the table), the untouched bytes between two spans and the
\* untouched suffix; the spans and the gaps between them cover every offset
\* of the line once and in order, so the output without its escape
\* sequences is the line; with an empty table the line is returned as it is.
C11_Reassembly ==
    [][/\ (pc = "emit" /\ pc' = "scan") =>
            LET sp == Ascending(replacements)
                out == stdout'[Len(stdout')]
            IN  /\ Len(stdout') = Len(stdout) + 1
                /\ InOrder(line, sp)
                /\ \A n \in 1..Len(sp) : \E k \in 1..Len(configs) :
                       sp[n].text = configs[k].color
                                    \o Slice(line, sp[n].start, sp[n].end) \o Reset
                /\ out = Reassembled(line, sp, 1)
                /\ Strip(out, FALSE) = line
       /\ (pc = "scan" /\ pc' = "scan" /\ rd' = rd + 1) =>
            stdout' = Append(stdout, stdin[rd + 1])]_vars

\* C11 witness: words ab, ba on the line "baab": ab is accepted at 2 before
\* ba is at 0, and the line is written with "ba" first, each in its color.
C11_Witness ==
    /\ args = << <<97, 98>>, <<98, 97>> >>
    /\ stdin = << <<98, 97, 97, 98>> >>
    /\ ~wholeWord
    /\ stdout = << presetANSI(2, FALSE) \o <<98, 97>> \o Reset
                   \o presetANSI(1, FALSE) \o <<97, 98>> \o Reset >>

\* the search key of word k occurs in the search view at offset p
OccursAt(k, p) == HasAt(searchLine, configs[k].search, p)

\* a byte of the span of the occurrence of word k at p, extended with -w, is
\* claimed
SpanClaimed(k, p) ==
    \E j \in CandStart(p)..(CandEnd(p, configs[k].search) - 1) :
        j >= 0 /\ j < Len(colored) /\ colored[j + 1]

\* C12: the scan of a word starts at offset 0; an iteration examines the
\* first offset at or after pos at which the search key occurs in the search
\* view and, accepted or discarded, resumes at that offset + 1; the next word
\* is taken only when no occurrence is left at or after pos.  So when
\* highlightLine is done every occurrence of every word has a claimed byte
\* in its (extended) span.
C12_ExhaustiveScan ==
    /\ [](pc = "emit" =>
            \A k \in 1..Len(configs) : \A p \in 0..Len(searchLine) :
                OccursAt(k, p) => SpanClaimed(k, p))
    /\ [][/\ (pc = "scan" /\ pc' = "match") => (w' = 1 /\ pos' = 0)
          /\ (pc = "match" /\ pc' = "match") =>
               LET occ == {p \in pos..Len(searchLine) : OccursAt(w, p)}
               IN  IF occ = {} THEN w' = w + 1 /\ pos' = 0
                   ELSE w' = w /\ pos' = Min(occ) + 1]_vars

\* C12 witness: words ba, aa on the line "baaa": the occurrence of aa at 1
\* is discarded (it overlaps "ba") and the one at 2 is colorized.
C12_Witness ==
    /\ args = << <<98, 97>>, <<97, 97>> >>
    /\ stdin = << <<98, 97, 97, 97>> >>
    /\ ~wholeWord
    /\ stdout = << presetANSI(1, FALSE) \o <<98, 97>> \o Reset
                   \o presetANSI(2, FALSE) \o <<97, 97>> \o Reset >>

====
